---- MODULE Spec2Model ----
(***************************************************************************)
(* A model of pinns.py: a physics-informed network for the 1-D wave        *)
(* equation.  The script builds a collocation grid, and then runs a fixed  *)
(* number of epochs, each of which assembles a five-term loss from forward *)
(* evaluations and autograd derivatives, back-propagates it and applies    *)
(* one optimizer update.                                                   *)
(*                                                                         *)
(* Abstractions.  Floating-point numbers are exact rationals <<n, d>>      *)
(* (d > 0, lowest terms); a non-finite float is <<0, 0>>.  The tanh        *)
(* network is replaced by a smooth surrogate whose parameters are the      *)
(* coefficients of a polynomial in x and t, so that f and its partial      *)
(* derivatives can be computed exactly.  torch.sin is replaced by a        *)
(* parabola on each half period, exact at the multiples of a quarter       *)
(* period.  The optimizer (Adam) is an external library: its update is a   *)
(* nondeterministic choice from the parameter space.                       *)
(***************************************************************************)
EXTENDS Integers, Sequences, FiniteSets, TLC

VARIABLES
    pc,          \* position of the script
    ep,          \* loop variable of `for ep in range(3000)`
    params,      \* the parameters of the model (simple_NN2)
    grad,        \* the .grad of the parameters: the losses accumulated in it
    opt_steps,   \* the optimizer's step count
    consumed,    \* the gradient the last optimizer update used
    loss,        \* the result of the last compute_loss call
    ops,         \* the statements of the loop body run so far in this epoch
    out_epochs,  \* the standard output: the epoch of every line printed
    out_last,    \* the standard output: the last line printed
    x, t,        \* the flattened meshgrid tensors
    x_idx, t_idx,\* the edge tensors
    leaf_grads,  \* backward passes accumulated in the .grad of the linspace leaves
    cfg,         \* the arguments the grid is built from, and the wave speed
    deriv        \* the derivative last extracted on its own

vars == <<pc, ep, params, grad, opt_steps, consumed, loss, ops, out_epochs,
          out_last, x, t, x_idx, t_idx, leaf_grads, cfg, deriv>>

grid == <<x, t, x_idx, t_idx>>
optimizer == <<grad, opt_steps, consumed>>
stdout == <<out_epochs, out_last>>

-----------------------------------------------------------------------------
(* Bounds of the model *)

TrainNx == 2       \* n_points_x of the training run (100 in the script)
TrainNt == 3       \* n_points_t of the training run (150 in the script)
MaxNx == 4         \* n_points_x ranges over 2..MaxNx where it is an input
MaxNt == 3         \* n_points_t ranges over 2..MaxNt where it is an input
MaxBound == 2      \* domain bounds range over -1..MaxBound where they are inputs
MaxCoef == 1       \* the coefficients of the surrogate range over -MaxCoef..MaxCoef
MaxC == 2          \* the wave speed ranges over 1..MaxC where it is an input
SamplePoints == 2  \* the number of points a derivative is sampled at

(* Program constants *)

epochs == 3000
report_every == 300
DefaultC == 1
x_domain == <<0, 1>>
t_domain == <<0, 1>>

-----------------------------------------------------------------------------
(* Exact rational arithmetic standing for float arithmetic *)

Abs(n) == IF n < 0 THEN -n ELSE n

RECURSIVE GCD(_, _)
GCD(a, b) == IF b = 0 THEN a ELSE GCD(b, a % b)

NaN == <<0, 0>>

IsFinite(r) == r[2] # 0

Rat(n, d) ==
    IF d = 0 THEN NaN
    ELSE LET g == GCD(Abs(n), Abs(d))
             s == IF d < 0 THEN -1 ELSE 1
         IN  <<(s * n) \div g, (s * d) \div g>>

RInt(n) == <<n, 1>>

LCM(a, b) == (a \div GCD(a, b)) * b

RAdd(a, b) ==
    IF a[2] = 0 \/ b[2] = 0 THEN NaN
    ELSE LET l == LCM(a[2], b[2])
         IN  Rat(a[1] * (l \div a[2]) + b[1] * (l \div b[2]), l)

RSub(a, b) == RAdd(a, <<-b[1], b[2]>>)

RMul(a, b) ==
    IF a[2] = 0 \/ b[2] = 0 THEN NaN
    ELSE Rat(a[1] * b[1], a[2] * b[2])

RDiv(a, b) ==
    IF a[2] = 0 \/ b[2] = 0 \/ b[1] = 0 THEN NaN
    ELSE Rat(a[1] * b[2], a[2] * b[1])

RECURSIVE RPow(_, _)
RPow(a, k) == IF k = 0 THEN RInt(1) ELSE RMul(a, RPow(a, k - 1))

RLess(a, b) == IsFinite(a) /\ IsFinite(b) /\ a[1] * b[2] < b[1] * a[2]

(* the sequence s as a tuple of values: an expression [i \in 1..n |-> e] is *)
(* otherwise evaluated anew at every application                           *)
Values(s) == s \o <<>>

RECURSIVE RSumTo(_, _)
RSumTo(s, n) == IF n = 0 THEN RInt(0) ELSE RAdd(RSumTo(s, n - 1), s[n])

RSum(s) == LET v == Values(s) IN RSumTo(v, Len(v))

(* floor of a finite rational *)
RFloor(a) ==
    IF a[1] >= 0 THEN a[1] \div a[2]
    ELSE -((-a[1] + a[2] - 1) \div a[2])

-----------------------------------------------------------------------------
(* Tensors.  A tensor has an identity, a shape, its values (row-major), the *)
(* requires_grad flag, whether it is a leaf, the tracked tensors its graph  *)
(* reaches (anc), and, for the output of the model or of a derivative, the  *)
(* per-row function it computes of which inputs (node).                     *)

NoNode == [fn |-> [finite |-> TRUE, terms |-> <<>>], xin |-> "", tin |-> "",
           xs |-> <<>>, ts |-> <<>>]

Tensor(id, shape, val, rg, leaf, anc, node) ==
    [id |-> id, shape |-> shape, val |-> Values(val), rg |-> rg, leaf |-> leaf,
     anc |-> anc, node |-> node, err |-> "ok"]

Failed(id, e) ==
    [id |-> id, shape |-> <<>>, val |-> <<>>, rg |-> FALSE, leaf |-> FALSE,
     anc |-> {}, node |-> NoNode, err |-> e]

NoTensor == Failed("", "none")

(* what a tracked tensor contributes to the graph of a result *)
Reach(T) == IF T.rg THEN {T.id} \cup T.anc ELSE {}

-----------------------------------------------------------------------------
(* The model: simple_NN2.  Its parameters are the terms <<c, a, b>> of the  *)
(* surrogate f(x, t) = sum of c * x^a * t^b; finite = FALSE stands for      *)
(* parameters that have become non-finite.                                  *)

Poly(terms) == [finite |-> TRUE, terms |-> terms]

NaNParams == [finite |-> FALSE, terms |-> <<>>]

Eval(p, xv, tv) ==
    IF ~p.finite THEN NaN
    ELSE RSum([k \in 1..Len(p.terms) |->
                 RMul(RInt(p.terms[k][1]),
                      RMul(RPow(xv, p.terms[k][2]), RPow(tv, p.terms[k][3])))])

(* the partial derivatives of the function a graph node computes *)
Dx(p) ==
    [finite |-> p.finite,
     terms |-> Values([k \in 1..Len(p.terms) |->
                         <<p.terms[k][1] * p.terms[k][2],
                           IF p.terms[k][2] > 0 THEN p.terms[k][2] - 1 ELSE 0,
                           p.terms[k][3]>>])]

Dt(p) ==
    [finite |-> p.finite,
     terms |-> Values([k \in 1..Len(p.terms) |->
                         <<p.terms[k][1] * p.terms[k][3],
                           p.terms[k][2],
                           IF p.terms[k][3] > 0 THEN p.terms[k][3] - 1 ELSE 0>>])]

ZeroFn(p) == [finite |-> p.finite, terms |-> <<>>]

PAdd(p, q) == [finite |-> p.finite /\ q.finite, terms |-> p.terms \o q.terms]

(* forward: concatenates x and t along dim 1 and applies the stack; every   *)
(* row of the output is a function of the same row of x and of t            *)
Forward(model, X, T, id) ==
    IF X.err # "ok" THEN Failed(id, X.err)
    ELSE IF T.err # "ok" THEN Failed(id, T.err)
    ELSE IF Len(X.shape) # 2 \/ Len(T.shape) # 2 \/ X.shape[1] # T.shape[1]
              \/ X.shape[2] # 1 \/ T.shape[2] # 1
         THEN Failed(id, "ShapeMismatch")
    ELSE Tensor(id, <<X.shape[1], 1>>,
                [i \in 1..X.shape[1] |-> Eval(model, X.val[i], T.val[i])],
                TRUE, FALSE,
                {"params"} \cup Reach(X) \cup Reach(T),
                [fn |-> model, xin |-> X.id, tin |-> T.id,
                 xs |-> X.val, ts |-> T.val])

-----------------------------------------------------------------------------
(* Tensor constructors and elementwise operations *)

OnesLike(T, requires_grad, id) ==
    Tensor(id, T.shape, [i \in 1..Len(T.val) |-> RInt(1)], requires_grad, TRUE,
           {}, NoNode)

ZerosLike(T, id) ==
    Tensor(id, T.shape, [i \in 1..Len(T.val) |-> RInt(0)], FALSE, TRUE, {}, NoNode)

(* a variant of SetRequiresGrad: the flag is never set *)
SetRequiresGradLost(T) == T

(* `T.requires_grad = True`: allowed on a leaf only *)
SetRequiresGrad(T) ==
    IF ~T.leaf THEN Failed(T.id, "NotLeaf") ELSE [T EXCEPT !.rg = TRUE]

(* T[i] for a Python index i, negative counting from the end: a row of T *)
Index(T, i) ==
    LET row == IF i < 0 THEN T.shape[1] + i + 1 ELSE i + 1
    IN  Tensor(T.id \o "[]", Tail(T.shape), <<T.val[row]>>, T.rg, FALSE,
               Reach(T), NoNode)

(* A * s for s holding one value: s is broadcast over A *)
MulScalar(A, s, id) ==
    Tensor(id, A.shape, [i \in 1..Len(A.val) |-> RMul(A.val[i], s.val[1])],
           A.rg \/ s.rg, FALSE, Reach(A) \cup Reach(s), NoNode)

(* A - B elementwise *)
Sub(A, B, id) ==
    IF A.err # "ok" THEN Failed(id, A.err)
    ELSE IF B.err # "ok" THEN Failed(id, B.err)
    ELSE IF A.shape # B.shape THEN Failed(id, "ShapeMismatch")
    ELSE Tensor(id, A.shape, [i \in 1..Len(A.val) |-> RSub(A.val[i], B.val[i])],
                A.rg \/ B.rg, FALSE, Reach(A) \cup Reach(B), NoNode)

(* c * A for a number c *)
Scale(c, A, id) ==
    IF A.err # "ok" THEN Failed(id, A.err)
    ELSE Tensor(id, A.shape, [i \in 1..Len(A.val) |-> RMul(c, A.val[i])],
                A.rg, FALSE, Reach(A), NoNode)

(* a variant of MeanSq: A.pow(2).sum() *)
SumSq(A) ==
    IF A.err # "ok" \/ Len(A.val) = 0 THEN NaN
    ELSE RSum([i \in 1..Len(A.val) |-> RMul(A.val[i], A.val[i])])

(* A.pow(2).mean() *)
MeanSq(A) ==
    IF A.err # "ok" \/ Len(A.val) = 0 THEN NaN
    ELSE RDiv(RSum([i \in 1..Len(A.val) |-> RMul(A.val[i], A.val[i])]),
              RInt(Len(A.val)))

-----------------------------------------------------------------------------
(* torch.autograd.grad(output, input_var, grad_outputs, create_graph):     *)
(* the vector-Jacobian product sum_j grad_outputs[j] * d output[j] /       *)
(* d input_var[i].  Row j of the output depends on row j of its inputs     *)
(* only, so the Jacobian is diagonal.                                      *)

Jacobian(d, output, j, i) ==
    IF j = i THEN Eval(d, output.node.xs[i], output.node.ts[i]) ELSE RInt(0)

Grad(output, input_var, grad_outputs, create_graph, id) ==
    IF output.err # "ok" THEN Failed(id, output.err)
    ELSE IF grad_outputs.shape # output.shape THEN Failed(id, "ShapeMismatch")
    ELSE IF ~output.rg \/ ~input_var.rg \/ input_var.id \notin output.anc
         THEN Failed(id, "GraphDisconnected")
    ELSE IF input_var.id \notin {output.node.xin, output.node.tin}
         THEN Failed(id, "Unmodelled")
    ELSE LET fn == output.node.fn
             d  == PAdd(IF input_var.id = output.node.xin THEN Dx(fn) ELSE ZeroFn(fn),
                        IF input_var.id = output.node.tin THEN Dt(fn) ELSE ZeroFn(fn))
             n  == Len(output.val)
         IN  Tensor(id, input_var.shape,
                    [i \in 1..Len(input_var.val) |->
                       RSum([j \in 1..n |->
                               RMul(grad_outputs.val[j], Jacobian(d, output, j, i))])],
                    create_graph, FALSE,
                    IF create_graph THEN output.anc ELSE {},
                    [output.node EXCEPT !.fn = d])

(* a variant of DfPass: the pass does not record its own graph *)
DfPassNoGraph(df_value, input_var) ==
    LET w == OnesLike(input_var, FALSE, "ones")
    IN  [value |-> Grad(df_value, input_var, w, FALSE, df_value.id \o "'"),
         pass  |-> [of |-> df_value.shape, weights |-> w.shape,
                    create_graph |-> FALSE]]

(* One pass of the loop of df; the record of the pass keeps the shapes the *)
(* pass saw.                                                               *)
DfPass(df_value, input_var) ==
    LET w == OnesLike(input_var, FALSE, "ones")
    IN  [value |-> Grad(df_value, input_var, w, TRUE, df_value.id \o "'"),
         pass  |-> [of |-> df_value.shape, weights |-> w.shape,
                    create_graph |-> TRUE]]

RECURSIVE DfLoop(_, _, _, _)
DfLoop(df_value, input_var, k, passes) ==
    IF k = 0 THEN [value |-> df_value, passes |-> passes]
    ELSE LET p == DfPass(df_value, input_var)
         IN  DfLoop(p.value, input_var, k - 1, Append(passes, p.pass))

(* a variant of df: one pass whatever the order *)
dfFirstOrder(output, input_var, order) ==
    LET r == DfLoop(output, input_var, 1, <<>>)
    IN  [value |-> r.value,
         call  |-> [out |-> output.id, wrt |-> input_var.id, order |-> order,
                    passes |-> r.passes, shape |-> r.value.shape,
                    wrt_shape |-> input_var.shape, err |-> r.value.err]]

(* df(output, input_var, order): the derivative and the record of the call *)
df(output, input_var, order) ==
    LET r == DfLoop(output, input_var, order, <<>>)
    IN  [value |-> r.value,
         call  |-> [out |-> output.id, wrt |-> input_var.id, order |-> order,
                    passes |-> r.passes, shape |-> r.value.shape,
                    wrt_shape |-> input_var.shape, err |-> r.value.err]]

(* a variant of dfdt: the model is evaluated with its arguments swapped *)
dfdtSwapped(model, X, T, order, id) ==
    LET f_value == Forward(model, T, X, id)
        d == df(f_value, T, order)
    IN  [value |-> d.value, call |-> d.call, fwd |-> f_value]

(* dfdt and dfdx evaluate the model and differentiate that evaluation; fwd *)
(* is the forward evaluation made                                          *)
dfdt(model, X, T, order, id) ==
    LET f_value == Forward(model, X, T, id)
        d == df(f_value, T, order)
    IN  [value |-> d.value, call |-> d.call, fwd |-> f_value]

dfdx(model, X, T, order, id) ==
    LET f_value == Forward(model, X, T, id)
        d == df(f_value, X, order)
    IN  [value |-> d.value, call |-> d.call, fwd |-> f_value]

-----------------------------------------------------------------------------
(* The time-space meshgrid *)

(* torch.linspace(lo, hi, steps, requires_grad=True): a 1-D leaf *)
Linspace(lo, hi, steps, id) ==
    Tensor(id, <<steps>>,
           [i \in 1..steps |->
              RAdd(RInt(lo), RDiv(RInt((i - 1) * (hi - lo)), RInt(steps - 1)))],
           TRUE, TRUE, {}, NoNode)

(* a variant of Meshgrid: indexing="xy", two tensors of shape [|T|, |X|] *)
MeshgridXY(X, T) ==
    <<[id |-> "grids[0]", shape |-> <<T.shape[1], X.shape[1]>>,
       rows |-> Values([j \in 1..T.shape[1] |->
                          Values([i \in 1..X.shape[1] |-> X.val[i]])]),
       anc |-> Reach(X)],
      [id |-> "grids[1]", shape |-> <<T.shape[1], X.shape[1]>>,
       rows |-> Values([j \in 1..T.shape[1] |->
                          Values([i \in 1..X.shape[1] |-> T.val[j]])]),
       anc |-> Reach(T)]>>

(* torch.meshgrid(X, T, indexing="ij"): two tensors of shape [|X|, |T|],   *)
(* held as their rows; entry [i][j] is X[i] in the first and T[j] in the   *)
(* second                                                                  *)
Meshgrid(X, T) ==
    <<[id |-> "grids[0]", shape |-> <<X.shape[1], T.shape[1]>>,
       rows |-> Values([i \in 1..X.shape[1] |->
                          Values([j \in 1..T.shape[1] |-> X.val[i]])]),
       anc |-> Reach(X)],
      [id |-> "grids[1]", shape |-> <<X.shape[1], T.shape[1]>>,
       rows |-> Values([i \in 1..X.shape[1] |->
                          Values([j \in 1..T.shape[1] |-> T.val[j]])]),
       anc |-> Reach(T)]>>

RECURSIVE Concat(_)
Concat(rows) == IF rows = <<>> THEN <<>> ELSE Head(rows) \o Concat(Tail(rows))

(* G.flatten().reshape(-1, 1): the rows one after the other, as a column *)
FlattenColumn(G, id) ==
    LET v == Concat(G.rows)
    IN  Tensor(id, <<Len(v), 1>>, v, TRUE, FALSE, G.anc, NoNode)

(* X.reshape(-1, 1) of a 1-D tensor *)
ReshapeColumn(X, id) ==
    Tensor(id, <<Len(X.val), 1>>, X.val, X.rg, FALSE, Reach(X), NoNode)

(* the four tensors the script builds from the domains and point counts *)
BuildGrid(xd, n_points_x, td, n_points_t) ==
    LET x_lin == Linspace(xd[1], xd[2], n_points_x, "x_lin")
        t_lin == Linspace(td[1], td[2], n_points_t, "t_lin")
        grids == Meshgrid(x_lin, t_lin)
    IN  [x_idx |-> ReshapeColumn(x_lin, "x_idx"),
         t_idx |-> ReshapeColumn(t_lin, "t_idx"),
         x |-> FlattenColumn(grids[1], "x"),
         t |-> FlattenColumn(grids[2], "t")]

-----------------------------------------------------------------------------
(* The loss *)

(* sin(pi * u), by a parabola on each half period *)
SinPi(u) ==
    IF ~IsFinite(u) THEN NaN
    ELSE LET k == RFloor(u)
             r == RSub(u, RInt(k))
             q == RMul(r, RSub(RInt(1), r))
             b == RMul(RInt(4), q)
         IN  IF k % 2 = 0 THEN b ELSE RSub(RInt(0), b)

(* initial_condition(x) = sin(2 * pi * x).reshape(-1, 1) * 0.5 *)
initial_condition(X) ==
    Tensor("f_initial", <<Len(X.val), 1>>,
           [i \in 1..Len(X.val) |->
              RMul(SinPi(RMul(RInt(2), X.val[i])), Rat(1, 2))],
           X.rg, FALSE, Reach(X), NoNode)

(* the record of a forward evaluation: its inputs, and the tracked tensors *)
(* its output was reachable from when it was made                          *)
FwdEvent(f) ==
    [id |-> f.id, x |-> f.node.xin, t |-> f.node.tin, reach |-> f.anc,
     val |-> f.val, err |-> f.err]

(* compute_loss: the loss, with the record of what the call did: the       *)
(* residual tensors, the forward evaluations and the df calls in the order *)
(* made, and the time tensor it created                                    *)
compute_loss(model, X, T, XI, TI, C) ==
    LET d2x == dfdx(model, X, T, 2, "f1")
        d2t == dfdt(model, X, T, 2, "f2")
        pde_loss == Sub(d2x.value,
                        Scale(RDiv(RInt(1), RInt(C * C)), d2t.value, "s"),
                        "pde_loss")
        boundary_x0 == MulScalar(OnesLike(TI, TRUE, "ones_x0"), Index(X, 0),
                                 "boundary_x0")
        boundary_loss_x0 == Forward(model, boundary_x0, TI, "f3")
        boundary_x1 == MulScalar(OnesLike(TI, TRUE, "ones_x1"), Index(X, -1),
                                 "boundary_x1")
        boundary_loss_x1 == Forward(model, boundary_x1, TI, "f4")
        f_initial == initial_condition(XI)
        t_initial == SetRequiresGrad(ZerosLike(XI, "t_initial"))
        f0 == Forward(model, XI, t_initial, "f5")
        initial_loss_f == Sub(f0, f_initial, "initial_loss_f")
        dt0 == dfdt(model, XI, t_initial, 1, "f6")
        initial_loss_df == dt0.value
        residuals == <<pde_loss, boundary_loss_x0, boundary_loss_x1,
                       initial_loss_f, initial_loss_df>>
        errs == {residuals[i].err : i \in 1..5} \ {"ok"}
    IN  [value |-> IF errs # {} THEN NaN
                   ELSE RAdd(RAdd(RAdd(RAdd(MeanSq(pde_loss),
                                            MeanSq(boundary_loss_x0)),
                                       MeanSq(boundary_loss_x1)),
                                  MeanSq(initial_loss_f)),
                             MeanSq(initial_loss_df)),
         err |-> IF errs = {} THEN "ok" ELSE CHOOSE e \in errs : TRUE,
         residuals |-> Values([i \in 1..5 |-> residuals[i].val]),
         fwds |-> <<FwdEvent(d2x.fwd), FwdEvent(d2t.fwd),
                    FwdEvent(boundary_loss_x0), FwdEvent(boundary_loss_x1),
                    FwdEvent(f0), FwdEvent(dt0.fwd)>>,
         dfs |-> <<d2x.call, d2t.call, dt0.call>>,
         t_initial |-> [id |-> t_initial.id, rg |-> t_initial.rg,
                        val |-> t_initial.val]]

NoLoss == [epoch |-> -1, value |-> RInt(0), err |-> "none", residuals |-> <<>>, fwds |-> <<>>,
           dfs |-> <<>>, t_initial |-> [id |-> "", rg |-> FALSE, val |-> <<>>]]

-----------------------------------------------------------------------------
(* The parameter space *)

(* f(x, t) = a * x^2 * t^3 + b * x * t + c *)
Surrogate(a, b, c) == Poly(<<<<a, 2, 3>>, <<b, 1, 1>>, <<c, 0, 0>>>>)

(* the parameters a training run moves among *)
TrainParams == {Surrogate(a, 0, 0) : a \in 0..MaxCoef}

-----------------------------------------------------------------------------
(* The script: grid, model and optimizer construction, then the loop *)

GridIs(g) == x = g.x /\ t = g.t /\ x_idx = g.x_idx /\ t_idx = g.t_idx

Config(xd, nx, td, nt, C) ==
    [x_domain |-> xd, n_points_x |-> nx, t_domain |-> td, n_points_t |-> nt,
     C |-> C]

TrainGrid == BuildGrid(x_domain, TrainNx, t_domain, TrainNt)

Init ==
    /\ cfg = Config(x_domain, TrainNx, t_domain, TrainNt, DefaultC)
    /\ GridIs(TrainGrid)
    /\ params \in TrainParams
    /\ grad = <<>>
    /\ opt_steps = 0
    /\ consumed = <<>>
    /\ loss = NoLoss
    /\ ops = <<>>
    /\ out_epochs = <<>>
    /\ out_last = <<>>
    /\ leaf_grads = 0
    /\ deriv = NoTensor
    /\ ep = 0
    /\ pc = "compute"

(* The loss of every parameter value on the training grid, evaluated once: *)
(* compute_loss is a function of its arguments, and a run calls it on the  *)
(* same few arguments thousands of times. Each entry is keyed by the       *)
(* arguments of the call.                                                  *)
TrainLoss ==
    {<<<<p, g.x, g.t, g.x_idx, g.t_idx>>,
       compute_loss(p, g.x, g.t, g.x_idx, g.t_idx, DefaultC)>> :
       p \in TrainParams \cup {NaNParams}, g \in {TrainGrid}}

(* compute_loss(model, x=x, t=t, x_idx=x_idx, t_idx=t_idx) on the state *)
CallComputeLoss ==
    (CHOOSE e \in TrainLoss : e[1] = <<params, x, t, x_idx, t_idx>>)[2]

(* a variant of ComputeLoss: the zero time tensor is made by zeroing x_idx *)
(* in place                                                                *)
ComputeLossInPlace ==
    /\ pc = "compute"
    /\ loss' = ("epoch" :> ep) @@ CallComputeLoss
    /\ x_idx' = [x_idx EXCEPT !.val = Values([i \in 1..Len(x_idx.val) |-> RInt(0)])]
    /\ pc' = IF loss'.err = "ok" THEN "zero_grad" ELSE "aborted"
    /\ ops' = Append(ops, "compute_loss")
    /\ UNCHANGED <<ep, params, optimizer, stdout, x, t, t_idx, leaf_grads, cfg,
                   deriv>>

(* loss = compute_loss(...); an error raised in it ends the script *)
ComputeLoss ==
    /\ pc = "compute"
    /\ loss' = ("epoch" :> ep) @@ CallComputeLoss
    /\ pc' = IF loss'.err = "ok" THEN "zero_grad" ELSE "aborted"
    /\ ops' = Append(ops, "compute_loss")
    /\ UNCHANGED <<ep, params, optimizer, stdout, grid, leaf_grads, cfg, deriv>>

(* a variant of ZeroGrad: the gradients are left as they are *)
ZeroGradSkipped ==
    /\ pc = "zero_grad"
    /\ pc' = "backward"
    /\ ops' = Append(ops, "zero_grad")
    /\ UNCHANGED <<ep, params, optimizer, loss, stdout, grid, leaf_grads, cfg,
                   deriv>>

(* optimizer.zero_grad() *)
ZeroGrad ==
    /\ pc = "zero_grad"
    /\ grad' = <<>>
    /\ pc' = "backward"
    /\ ops' = Append(ops, "zero_grad")
    /\ UNCHANGED <<ep, params, opt_steps, consumed, loss, stdout, grid,
                   leaf_grads, cfg, deriv>>

(* loss.backward(): adds the gradient of the loss to the .grad of every    *)
(* leaf the loss reaches: the parameters, and the linspace leaves          *)
Backward ==
    /\ pc = "backward"
    /\ grad' = Append(grad, loss.epoch)
    /\ leaf_grads' = leaf_grads + 1
    /\ pc' = "step"
    /\ ops' = Append(ops, "backward")
    /\ UNCHANGED <<ep, params, opt_steps, consumed, loss, stdout, grid, cfg,
                   deriv>>

(* what an update can leave in the parameters: a non-finite gradient or    *)
(* parameter stays non-finite                                              *)
Updated(p, l) ==
    IF p.finite /\ IsFinite(l.value) THEN TrainParams \cup {NaNParams}
    ELSE {NaNParams}

(* optimizer.step() *)
OptimizerStep ==
    /\ pc = "step"
    /\ params' \in Updated(params, loss)
    /\ consumed' = grad
    /\ opt_steps' = opt_steps + 1
    /\ pc' = "report"
    /\ ops' = Append(ops, "step")
    /\ UNCHANGED <<ep, grad, loss, stdout, grid, leaf_grads, cfg, deriv>>

(* a variant of Reports: the last epoch of every 300 prints *)
ReportsOffByOne(e) == (e + 1) % report_every = 0

(* whether the epoch prints its line *)
Reports(e) == e % report_every = 0

(* a variant of Report: a non-finite loss ends the loop *)
ReportStopsOnNaN ==
    /\ pc = "report"
    /\ IF Reports(ep)
       THEN /\ out_epochs' = Append(out_epochs, ep)
            /\ out_last' = <<ep, loss.value>>
       ELSE UNCHANGED stdout
    /\ ep' = ep + 1
    /\ pc' = IF ep + 1 < epochs /\ IsFinite(loss.value) THEN "compute" ELSE "done"
    /\ ops' = <<>>
    /\ UNCHANGED <<params, optimizer, loss, grid, leaf_grads, cfg, deriv>>

(* the `if ep % 300 == 0: print(...)` and the advance of the loop *)
Report ==
    /\ pc = "report"
    /\ IF Reports(ep)
       THEN /\ out_epochs' = Append(out_epochs, ep)
            /\ out_last' = <<ep, loss.value>>
       ELSE UNCHANGED stdout
    /\ ep' = ep + 1
    /\ pc' = IF ep + 1 < epochs THEN "compute" ELSE "done"
    /\ ops' = <<>>
    /\ UNCHANGED <<params, optimizer, loss, grid, leaf_grads, cfg, deriv>>

Next == ComputeLoss \/ ZeroGrad \/ Backward \/ OptimizerStep \/ Report

Spec == Init /\ [][Next]_vars

(* the script runs on one thread and no statement of it blocks *)
FairSpec == Spec /\ WF_vars(Next)

-----------------------------------------------------------------------------
(* The grid construction on its own, for domains and point counts other    *)
(* than the script's                                                       *)

NoTraining ==
    /\ grad = <<>>
    /\ opt_steps = 0
    /\ consumed = <<>>
    /\ ops = <<>>
    /\ out_epochs = <<>>
    /\ out_last = <<>>
    /\ leaf_grads = 0
    /\ ep = 0

Domains == {d \in (-1..MaxBound) \X (-1..MaxBound) : d[1] < d[2]}

GridInit ==
    /\ pc = "build"
    /\ cfg \in {Config(xd, nx, td, nt, DefaultC) :
                  xd \in Domains, nx \in 2..MaxNx, td \in Domains, nt \in 2..MaxNt}
    /\ x = NoTensor /\ t = NoTensor /\ x_idx = NoTensor /\ t_idx = NoTensor
    /\ params = Poly(<<>>)
    /\ loss = NoLoss
    /\ deriv = NoTensor
    /\ NoTraining

GridBuild ==
    /\ pc = "build"
    /\ LET g == BuildGrid(cfg.x_domain, cfg.n_points_x, cfg.t_domain, cfg.n_points_t)
       IN  x' = g.x /\ t' = g.t /\ x_idx' = g.x_idx /\ t_idx' = g.t_idx
    /\ pc' = "built"
    /\ UNCHANGED <<ep, params, optimizer, loss, ops, stdout, leaf_grads, cfg, deriv>>

GridNext == GridBuild

SpecGrid == GridInit /\ [][GridNext]_vars

-----------------------------------------------------------------------------
(* df on its own, with the model replaced by f(x, t) = x^2 * t^3 *)

SampleValues == {Rat(k, 2) : k \in 0..(MaxBound + 1)}

Column(id, val) == Tensor(id, <<Len(val), 1>>, val, TRUE, TRUE, {}, NoNode)

DfInit ==
    /\ pc = "df"
    /\ cfg = Config(x_domain, SamplePoints, t_domain, SamplePoints, DefaultC)
    /\ \E xs \in [1..SamplePoints -> SampleValues] : x = Column("x", xs)
    /\ \E ts \in [1..SamplePoints -> SampleValues] : t = Column("t", ts)
    /\ x_idx = NoTensor /\ t_idx = NoTensor
    /\ params = Surrogate(1, 0, 0)
    /\ loss = NoLoss
    /\ deriv = NoTensor
    /\ NoTraining

DfX ==
    /\ pc = "df"
    /\ deriv' = dfdx(params, x, t, 2, "f").value
    /\ pc' = "dfdx"
    /\ UNCHANGED <<ep, params, optimizer, loss, ops, stdout, grid, leaf_grads, cfg>>

DfT ==
    /\ pc = "df"
    /\ deriv' = dfdt(params, x, t, 2, "f").value
    /\ pc' = "dfdt"
    /\ UNCHANGED <<ep, params, optimizer, loss, ops, stdout, grid, leaf_grads, cfg>>

DfNext == DfX \/ DfT

SpecDf == DfInit /\ [][DfNext]_vars

-----------------------------------------------------------------------------
(* compute_loss on its own, over parameters, point counts and wave speeds *)

LossParams == {Surrogate(a, b, c) : a \in -MaxCoef..MaxCoef, b \in 0..1, c \in 0..1}

LossInit ==
    /\ pc = "loss"
    /\ \E nx \in 2..MaxNx, nt \in 2..MaxNt, C \in 1..MaxC :
          /\ cfg = Config(x_domain, nx, t_domain, nt, C)
          /\ GridIs(BuildGrid(x_domain, nx, t_domain, nt))
    /\ params \in LossParams
    /\ loss = NoLoss
    /\ deriv = NoTensor
    /\ NoTraining

LossApply ==
    /\ pc = "loss"
    /\ loss' = ("epoch" :> 0) @@ compute_loss(params, x, t, x_idx, t_idx, cfg.C)
    /\ pc' = "lossed"
    /\ UNCHANGED <<ep, params, optimizer, ops, stdout, grid, leaf_grads, cfg, deriv>>

LossNext == LossApply

SpecLoss == LossInit /\ [][LossNext]_vars

-----------------------------------------------------------------------------
(* Properties *)

(* C1: the loop always ends, after exactly 3000 iterations, each with its  *)
(* optimizer update, whatever the losses were: a non-finite loss neither    *)
(* stops the loop nor skips an update.                                      *)
TrainingTerminates ==
    /\ [](pc = "done" => ep = 3000 /\ opt_steps = 3000)
    /\ [](pc # "aborted")
    /\ <>(pc = "done")

(* a run that ended with non-finite parameters, a non-finite loss printed  *)
TerminatedWithNaN ==
    /\ pc = "done"
    /\ opt_steps = 3000
    /\ ~params.finite
    /\ ~IsFinite(out_last[2])

BodyOrder == <<"compute_loss", "zero_grad", "backward", "step">>

Position(p) ==
    CASE p = "compute" -> 0
      [] p = "zero_grad" -> 1
      [] p = "backward" -> 2
      [] p = "step" -> 3
      [] p = "report" -> 4
      [] OTHER -> 0

(* C2: in every epoch compute_loss, zero_grad, backward and step run once  *)
(* each in this order; the gradient an update uses is that of the loss of  *)
(* its own epoch alone; after k epochs the parameters were updated k times.*)
EpochOrder ==
    /\ ops = SubSeq(BodyOrder, 1, Position(pc))
    /\ pc \in {"zero_grad", "backward", "step", "report"} => loss.epoch = ep
    /\ pc = "step" => grad = <<ep>>
    /\ pc = "report" => consumed = <<ep>>
    /\ opt_steps = IF pc = "report" THEN ep + 1 ELSE ep

(* the update of the third epoch has been made *)
ThirdUpdateMade == pc = "report" /\ ep = 2 /\ consumed = <<2>> /\ opt_steps = 3

(* C3: a line is printed at the epochs 0, 300, ..., 2700 and at no other,  *)
(* in this order: ten lines in a run; a line carries its epoch and the     *)
(* loss computed in that epoch.                                            *)
ReportCadence ==
    LET n == (ep + 299) \div 300
    IN  /\ Len(out_epochs) = n
        /\ \A i \in 1..n : out_epochs[i] = 300 * (i - 1)
        /\ pc = "done" => n = 10
        /\ n > 0 => out_last[1] = out_epochs[n]
        /\ n > 0 /\ loss.epoch = out_last[1] => out_last[2] = loss.value

(* the run has ended and its tenth line was that of epoch 2700 *)
TenLinesPrinted == pc = "done" /\ Len(out_epochs) = 10 /\ out_epochs[10] = 2700

(* C4: no df call of compute_loss fails: the calls are those of order 2 on *)
(* x and on t and of order 1 on t_initial, and each differentiates a       *)
(* forward evaluation that reached the tensor differentiated against, the  *)
(* tensor being tracked when that evaluation was made; in every epoch.     *)
NoGraphDisconnected ==
    /\ pc # "aborted"
    /\ loss.err \in {"ok", "none"}
    /\ loss.err = "ok" =>
         /\ [i \in 1..Len(loss.dfs) |-> <<loss.dfs[i].wrt, loss.dfs[i].order>>]
              = <<<<"x", 2>>, <<"t", 2>>, <<"t_initial", 1>>>>
         /\ \A i \in 1..Len(loss.dfs) :
               /\ loss.dfs[i].err = "ok"
               /\ \E k \in 1..Len(loss.fwds) :
                     /\ loss.fwds[k].id = loss.dfs[i].out
                     /\ loss.fwds[k].err = "ok"
                     /\ loss.dfs[i].wrt \in loss.fwds[k].reach
         /\ loss.t_initial.rg
         /\ \A i \in 1..Len(loss.t_initial.val) : loss.t_initial.val[i] = RInt(0)

(* the loss of the second epoch has been computed *)
SecondLossComputed == pc = "zero_grad" /\ ep = 1 /\ loss.err = "ok" /\ Len(loss.dfs) = 3

(* C5: the edges have nx and nt entries, strictly increasing from the      *)
(* lower to the upper bound of their domain; the grids have nx * nt        *)
(* entries, and the pair of edge values (i, j) is at the flat index        *)
(* i * nt + j and nowhere else.                                            *)
GridStructure ==
    pc = "built" =>
       LET nx == cfg.n_points_x
           nt == cfg.n_points_t
       IN  /\ x_idx.shape = <<nx, 1>> /\ Len(x_idx.val) = nx
           /\ t_idx.shape = <<nt, 1>> /\ Len(t_idx.val) = nt
           /\ x_idx.val[1] = RInt(cfg.x_domain[1])
           /\ x_idx.val[nx] = RInt(cfg.x_domain[2])
           /\ t_idx.val[1] = RInt(cfg.t_domain[1])
           /\ t_idx.val[nt] = RInt(cfg.t_domain[2])
           /\ \A i \in 1..(nx - 1) : RLess(x_idx.val[i], x_idx.val[i + 1])
           /\ \A j \in 1..(nt - 1) : RLess(t_idx.val[j], t_idx.val[j + 1])
           /\ x.shape = <<nx * nt, 1>> /\ Len(x.val) = nx * nt
           /\ t.shape = <<nx * nt, 1>> /\ Len(t.val) = nx * nt
           /\ x.rg /\ t.rg /\ x_idx.rg /\ t_idx.rg
           /\ \A i \in 0..(nx - 1), j \in 0..(nt - 1) :
                 /\ x.val[i * nt + j + 1] = x_idx.val[i + 1]
                 /\ t.val[i * nt + j + 1] = t_idx.val[j + 1]
                 /\ Cardinality({k \in 1..(nx * nt) :
                                   /\ x.val[k] = x_idx.val[i + 1]
                                   /\ t.val[k] = t_idx.val[j + 1]}) = 1

(* a grid of 3 by 2 points over [-1, 2] x [0, 1] has been built *)
GridBuilt ==
    /\ pc = "built"
    /\ cfg.n_points_x = 3 /\ cfg.n_points_t = 2
    /\ cfg.x_domain = <<-1, 2>> /\ cfg.t_domain = <<0, 1>>
    /\ Len(x.val) = 6

Cube(r) == RMul(r, RMul(r, r))

(* C6 as stated: for f = x^2 * t^3 the order-2 derivative is 2 * t^3 with  *)
(* respect to x and 6 * x * t with respect to t, at every sampled point.   *)
DerivativesAsStated ==
    /\ pc = "dfdx" =>
          \A i \in 1..Len(x.val) : deriv.val[i] = RMul(RInt(2), Cube(t.val[i]))
    /\ pc = "dfdt" =>
          \A i \in 1..Len(x.val) :
             deriv.val[i] = RMul(RInt(6), RMul(x.val[i], t.val[i]))

(* C6 as amended: for f = x^2 * t^3 the order-2 derivative is 2 * t^3 with *)
(* respect to x and 6 * x^2 * t with respect to t, at every sampled point. *)
DerivativesOfOrderTwo ==
    /\ pc \in {"dfdx", "dfdt"} =>
          deriv.err = "ok" /\ Len(deriv.val) = Len(x.val)
    /\ pc = "dfdx" =>
          \A i \in 1..Len(x.val) : deriv.val[i] = RMul(RInt(2), Cube(t.val[i]))
    /\ pc = "dfdt" =>
          \A i \in 1..Len(x.val) :
             deriv.val[i] = RMul(RInt(6), RMul(RMul(x.val[i], x.val[i]), t.val[i]))

(* the derivative with respect to t taken at a point with x = 1/2, t = 1,  *)
(* where 6 * x * t and 6 * x^2 * t differ                                  *)
TimeDerivativeTaken ==
    /\ pc = "dfdt"
    /\ x.val[1] = Rat(1, 2) /\ t.val[1] = RInt(1)
    /\ deriv.val[1] = Rat(3, 2)

MeanOfSquares(s) ==
    RDiv(RSum([i \in 1..Len(s) |-> RMul(s[i], s[i])]), RInt(Len(s)))

(* C7: the loss is the sum of the means of the squares of five residuals:  *)
(* d2f/dx2 - d2f/dt2 / C^2 at the nx * nt grid points, f(x0, t) and        *)
(* f(x1, t) at the nt times, f(x, 0) - sin(2 pi x) / 2 and df/dt(x, 0) at  *)
(* the nx positions, x0 and x1 the first and last position; it is not      *)
(* negative, and zero exactly when every residual is zero at every point.  *)
LossIsSumOfFive ==
    pc = "lossed" =>
       LET nx == cfg.n_points_x
           nt == cfg.n_points_t
           xe == x_idx.val
           te == t_idx.val
           w  == RDiv(RInt(1), RInt(cfg.C * cfg.C))
           pde == Values([k \in 1..(nx * nt) |->
                     RSub(Eval(Dx(Dx(params)), xe[((k - 1) \div nt) + 1],
                               te[((k - 1) % nt) + 1]),
                          RMul(w, Eval(Dt(Dt(params)), xe[((k - 1) \div nt) + 1],
                                       te[((k - 1) % nt) + 1])))])
           b0  == Values([j \in 1..nt |-> Eval(params, xe[1], te[j])])
           b1  == Values([j \in 1..nt |-> Eval(params, xe[nx], te[j])])
           i0  == Values([i \in 1..nx |->
                     RSub(Eval(params, xe[i], RInt(0)),
                          RMul(Rat(1, 2), SinPi(RMul(RInt(2), xe[i]))))])
           i1  == Values([i \in 1..nx |-> Eval(Dt(params), xe[i], RInt(0))])
       IN  /\ loss.err = "ok"
           /\ loss.residuals = <<pde, b0, b1, i0, i1>>
           /\ loss.value = RAdd(MeanOfSquares(pde),
                             RAdd(MeanOfSquares(b0),
                               RAdd(MeanOfSquares(b1),
                                 RAdd(MeanOfSquares(i0), MeanOfSquares(i1)))))
           /\ IsFinite(loss.value) /\ ~RLess(loss.value, RInt(0))
           /\ loss.value = RInt(0) <=>
                 \A k \in 1..5 : \A i \in 1..Len(loss.residuals[k]) :
                    loss.residuals[k][i] = RInt(0)

(* a loss with wave speed 2 in which each of the five residuals is not     *)
(* zero somewhere                                                          *)
FiveTermsNonZero ==
    /\ pc = "lossed"
    /\ cfg.C = 2 /\ cfg.n_points_x = 4 /\ cfg.n_points_t = 3
    /\ \A k \in 1..5 : \E i \in 1..Len(loss.residuals[k]) :
          loss.residuals[k][i] # RInt(0)

(* C8: computing the loss leaves the parameters and the four grid tensors  *)
(* as they are; the parameters change in the optimizer update only; the    *)
(* grid tensors never change.                                              *)
LossIsPure ==
    [][/\ pc = "compute" => params' = params /\ grid' = grid
       /\ params' # params => pc = "step"
       /\ grid' = grid]_vars

(* a loss computed after the parameters were updated and changed *)
LossAfterUpdate ==
    /\ pc = "zero_grad" /\ ep = 1 /\ opt_steps = 1
    /\ out_last[2] = RInt(0)
    /\ loss.value # RInt(0)
    /\ GridIs(TrainGrid)

(* C9: once a loss has been computed, every df call of compute_loss has    *)
(* made as many passes as its order,                                       *)
(* each recording its graph, and returns the shape of the tensor           *)
(* differentiated against; in each pass the weights have the shape of the  *)
(* tensor the pass differentiates.                                         *)
DfShapes ==
    loss.err # "none" =>
       /\ Len(loss.dfs) = 3
       /\ \A i \in 1..Len(loss.dfs) :
             /\ Len(loss.dfs[i].passes) = loss.dfs[i].order
             /\ loss.dfs[i].shape = loss.dfs[i].wrt_shape
             /\ \A k \in 1..Len(loss.dfs[i].passes) :
                   /\ loss.dfs[i].passes[k].create_graph
                   /\ loss.dfs[i].passes[k].weights = loss.dfs[i].passes[k].of

(* the second pass of the derivative with respect to x has been made on    *)
(* the interior grid                                                       *)
SecondPassMade ==
    /\ pc = "backward"
    /\ Len(loss.dfs[1].passes) = 2
    /\ loss.dfs[1].passes[2].of = <<TrainNx * TrainNt, 1>>
    /\ loss.dfs[3].passes[1].of = <<TrainNx, 1>>

Interior == {k \in 1..Len(loss.fwds) : loss.fwds[k].x = "x" /\ loss.fwds[k].t = "t"}

AtTimeZero == {k \in 1..Len(loss.fwds) : loss.fwds[k].t = loss.t_initial.id}

InitialTime ==
    /\ loss.t_initial.rg
    /\ \A i \in 1..Len(loss.t_initial.val) : loss.t_initial.val[i] = RInt(0)
    /\ loss.dfs[3].wrt = loss.t_initial.id
    /\ \A k \in AtTimeZero : loss.fwds[k].x = "x_idx"

(* C10 as stated: the two second-order derivatives of the PDE residual are *)
(* taken from one forward evaluation on the interior grid, the only one    *)
(* made there; the initial derivative is taken with respect to the zero    *)
(* tracked time tensor the initial value is evaluated at.                  *)
OneInteriorForward ==
    loss.err = "ok" =>
       /\ loss.dfs[1].out = loss.dfs[2].out
       /\ Cardinality(Interior) = 1
       /\ InitialTime

(* C10 as amended: the two second-order derivatives are taken from two     *)
(* forward evaluations, both of the interior tensors x and t with the same *)
(* parameters and so of equal values, the only two made there; the initial *)
(* derivative is taken with respect to the zero tracked time tensor the    *)
(* initial value is evaluated at, from a forward evaluation of its own.    *)
TwoInteriorForwards ==
    loss.err = "ok" =>
       /\ loss.dfs[1].out # loss.dfs[2].out
       /\ Interior = {1, 2}
       /\ {loss.fwds[k].id : k \in Interior} = {loss.dfs[1].out, loss.dfs[2].out}
       /\ loss.fwds[1].val = loss.fwds[2].val
       /\ InitialTime
       /\ Cardinality(AtTimeZero) = 2
       /\ \E k \in AtTimeZero : loss.fwds[k].id = loss.dfs[3].out
       /\ \A k, m \in AtTimeZero : loss.fwds[k].val = loss.fwds[m].val

(* a loss computed with parameters for which f is not zero on the grid *)
InteriorEvaluated ==
    /\ pc = "zero_grad"
    /\ loss.err = "ok"
    /\ \E i \in 1..Len(loss.fwds[1].val) : loss.fwds[1].val[i] # RInt(0)

====
